---- MODULE Spec2Model ----
(***************************************************************************)
(* A model of quickmapper.py: the three extractors over one parsed         *)
(* BloodHound document and the per-file loop of main that merges their     *)
(* results into the running collections.                                   *)
(*                                                                         *)
(* A JSON object is a function from its keys to its values (a record), the *)
(* empty object is the empty function, a JSON list is a sequence and JSON  *)
(* null is the distinguished value JsonNull.  A Python exception raised by *)
(* an extractor is the result [ok |-> FALSE].                              *)
(***************************************************************************)
EXTENDS FiniteSets, Integers, Sequences, TLC

\* ------------------------------------------------------------------------
\* Bounds of the model
\* ------------------------------------------------------------------------
MaxFiles == 2      \* entries in the directory listing
MaxNodes == 2      \* nodes read over the whole run
MaxSessions == 2   \* session records read over the whole run

\* ------------------------------------------------------------------------
\* JSON values
\* ------------------------------------------------------------------------
EmptyDict == <<>>
JsonNull == [null |-> TRUE]

\* dict.get(key, default)
Get(d, key, default) == IF key \in DOMAIN d THEN d[key] ELSE default

\* d1 | d2 on dictionaries with disjoint keys (used to build the inputs)
Merge(d1, d2) ==
    [k \in DOMAIN d1 \cup DOMAIN d2 |-> IF k \in DOMAIN d1 THEN d1[k] ELSE d2[k]]

\* The five category labels of extract_high_value_targets
HighValue == "High Value"
DomainAdmins == "Domain Admins / Enterprise Admins"
Kerberoastable == "Kerberoastable Accounts"
UnconstrainedDelegation == "Unconstrained Delegation"
AllowedToDelegate == "Allowed to Delegate"
Categories ==
    {HighValue, DomainAdmins, Kerberoastable, UnconstrainedDelegation, AllowedToDelegate}

\* ------------------------------------------------------------------------
\* The inputs: file contents the run can read
\* ------------------------------------------------------------------------
\* The names the files give to nodes and users
Names == {"A", "B", ""}

\* A node's name: no "name" key, or one of the names
NameOptions == {EmptyDict} \cup {[name |-> n] : n \in Names}

\* Flag settings of a node's properties: no flag, every flag alone, both
\* values of highvalue, admincount 0 and 1, and nodes of several categories.
FlagProfiles ==
    { EmptyDict,
      [highvalue |-> TRUE],
      [highvalue |-> FALSE],
      [admincount |-> 1],
      [admincount |-> 0],
      [hasspn |-> TRUE],
      [unconstraineddelegation |-> TRUE],
      [allowedtodelegate |-> TRUE],
      [admincount |-> 1, unconstraineddelegation |-> TRUE],
      [highvalue |-> TRUE, admincount |-> 1, hasspn |-> TRUE,
       unconstraineddelegation |-> TRUE, allowedtodelegate |-> TRUE] }

\* The properties objects: every flag setting for the node named B, and
\* every name option without a flag and with highvalue
PropertySets ==
    {Merge([name |-> "B"], f) : f \in FlagProfiles}
    \cup {Merge(n, f) : n \in NameOptions, f \in {EmptyDict, [highvalue |-> TRUE]}}

\* A node without sessions: no "properties" key, "properties": null, or a
\* properties object.
BareNodes ==
    {EmptyDict, [properties |-> JsonNull]} \cup {[properties |-> p] : p \in PropertySets}

\* A session record: a named user, no "user" key, or "user": null.
SessionRecords ==
    {[user |-> [name |-> "A"]], [user |-> [name |-> "B"]], EmptyDict, [user |-> JsonNull]}

RECURSIVE SessionLists(_)
SessionLists(k) ==
    IF k = 0 THEN {<<>>}
    ELSE {<<s>> \o rest : s \in SessionRecords, rest \in SessionLists(k - 1)}

\* The nodes carrying exactly k session records
NodesWith(k) ==
    IF k = 0 THEN BareNodes
    ELSE {Merge(b, [sessions |-> ss]) : b \in BareNodes, ss \in SessionLists(k)}

\* The node lists of at most n nodes and at most s session records in all
RECURSIVE NodeLists(_, _)
NodeLists(n, s) ==
    IF n = 0 THEN {<<>>}
    ELSE {<<>>} \cup
         UNION { {<<x>> \o rest : x \in NodesWith(k), rest \in NodeLists(n - 1, s - k)}
                 : k \in 0..s }

\* What load_json can return when at most n nodes and s session records are
\* left to read: an object without "nodes", or one with a node list
Documents(n, s) == {EmptyDict} \cup {[nodes |-> ns] : ns \in NodeLists(n, s)}

\* Documents, tabulated once
DocumentTable ==
    [n \in 0..MaxNodes, s \in 0..MaxSessions |-> Documents(n, s)]

Extensions == {".json", ".txt"}

RECURSIVE Listings(_)
Listings(k) ==
    IF k = 0 THEN {<<>>}
    ELSE {<<>>} \cup {<<e>> \o rest : e \in Extensions, rest \in Listings(k - 1)}

\* filename.endswith(".json")
EndsWithJson(filename) == filename = ".json"

\* ------------------------------------------------------------------------
\* The extractors
\* ------------------------------------------------------------------------
\* The result of a call: the returned value, or an exception raised
Returned(v) == [ok |-> TRUE, value |-> v]
Raised == [ok |-> FALSE, value |-> EmptyDict]

\* None has no attribute get: x.get(...) raises AttributeError on JSON null
HasNoGet(x) == x = JsonNull

\* properties.get("name", "Unknown")
DisplayName(properties) == Get(properties, "name", "Unknown")

\* a slip: a name already listed under the category is not appended again
AppendTo_Unique(d, key, name) ==
    [k \in DOMAIN d \cup {key} |->
        IF k = key
        THEN (IF \E i \in 1..Len(Get(d, key, <<>>)) : Get(d, key, <<>>)[i] = name
              THEN Get(d, key, <<>>)
              ELSE Append(Get(d, key, <<>>), name))
        ELSE d[k]]

\* defaultdict(list): d[key].append(name)
AppendTo(d, key, name) ==
    [k \in DOMAIN d \cup {key} |->
        IF k = key THEN Append(Get(d, key, <<>>), name) ELSE d[k]]

\* defaultdict(set): d[key].add(name)
AddTo(d, key, name) ==
    [k \in DOMAIN d \cup {key} |->
        IF k = key THEN Get(d, key, {}) \cup {name} ELSE d[k]]

\* One predicate of the loop body: append the name when the flag is truthy
AppendIfFlag(d, properties, flag, key) ==
    IF Get(properties, flag, FALSE)
    THEN AppendTo(d, key, DisplayName(properties))
    ELSE d

\* "admincount" in properties and properties["admincount"] == 1
IsAdmin(properties) ==
    "admincount" \in DOMAIN properties /\ properties["admincount"] = 1

AppendIfAdmin(d, properties) ==
    IF IsAdmin(properties)
    THEN AppendTo(d, DomainAdmins, DisplayName(properties))
    ELSE d

\* a slip: the unconstrained-delegation predicate is left out
ClassifyNode_NoDelegation(d, properties) ==
    LET d1 == AppendIfFlag(d, properties, "highvalue", HighValue)
        d2 == AppendIfAdmin(d1, properties)
        d3 == AppendIfFlag(d2, properties, "hasspn", Kerberoastable)
    IN  AppendIfFlag(d3, properties, "allowedtodelegate", AllowedToDelegate)

\* The body of the node loop of extract_high_value_targets
ClassifyNode(d, properties) ==
    LET d1 == AppendIfFlag(d, properties, "highvalue", HighValue)
        d2 == AppendIfAdmin(d1, properties)
        d3 == AppendIfFlag(d2, properties, "hasspn", Kerberoastable)
        d4 == AppendIfFlag(d3, properties, "unconstraineddelegation",
                           UnconstrainedDelegation)
    IN  AppendIfFlag(d4, properties, "allowedtodelegate", AllowedToDelegate)

RECURSIVE HighValueLoop(_, _, _)
HighValueLoop(nodes, i, high_value_accounts) ==
    IF i > Len(nodes) THEN Returned(high_value_accounts)
    ELSE LET properties == Get(nodes[i], "properties", EmptyDict)
         IN  IF HasNoGet(properties) THEN Raised
             ELSE HighValueLoop(nodes, i + 1,
                                ClassifyNode(high_value_accounts, properties))

extract_high_value_targets(bloodhound_json) ==
    HighValueLoop(Get(bloodhound_json, "nodes", <<>>), 1, EmptyDict)

\* session.get("user", {}).get("name", ""), with the set membership test
RECURSIVE SessionLoop(_, _, _, _, _)
SessionLoop(sessions, j, host, high_priv, session_data) ==
    IF j > Len(sessions) THEN Returned(session_data)
    ELSE LET user == Get(sessions[j], "user", EmptyDict)
         IN  IF HasNoGet(user) THEN Raised
             ELSE LET username == Get(user, "name", "")
                  IN  SessionLoop(sessions, j + 1, host, high_priv,
                                  IF username \in high_priv
                                  THEN AddTo(session_data, host, username)
                                  ELSE session_data)

RECURSIVE SessionNodeLoop(_, _, _, _)
SessionNodeLoop(nodes, i, high_priv, session_data) ==
    IF i > Len(nodes) THEN Returned(session_data)
    ELSE LET properties == Get(nodes[i], "properties", EmptyDict)
         IN  IF HasNoGet(properties) THEN Raised
             ELSE LET r == SessionLoop(Get(nodes[i], "sessions", <<>>), 1,
                                       DisplayName(properties), high_priv,
                                       session_data)
                  IN  IF r.ok
                      THEN SessionNodeLoop(nodes, i + 1, high_priv, r.value)
                      ELSE Raised

\* a slip: the membership test is left out, every username is recorded
extract_sessions_Unfiltered(bloodhound_json, high_priv_accounts) ==
    SessionNodeLoop(Get(bloodhound_json, "nodes", <<>>), 1,
                    high_priv_accounts \cup Names, EmptyDict)

\* a slip: session_data[host] is read for every node, which creates the key
extract_sessions_Touching(bloodhound_json, high_priv_accounts) ==
    LET nodes == Get(bloodhound_json, "nodes", <<>>)
        r == SessionNodeLoop(nodes, 1, high_priv_accounts, EmptyDict)
        hosts == {DisplayName(Get(nodes[i], "properties", EmptyDict)) :
                    i \in 1..Len(nodes)}
    IN  IF r.ok
        THEN Returned([h \in DOMAIN r.value \cup hosts |-> Get(r.value, h, {})])
        ELSE Raised

extract_sessions(bloodhound_json, high_priv_accounts) ==
    SessionNodeLoop(Get(bloodhound_json, "nodes", <<>>), 1, high_priv_accounts,
                    EmptyDict)

RECURSIVE DelegationLoop(_, _, _)
DelegationLoop(nodes, i, delegation_targets) ==
    IF i > Len(nodes) THEN Returned(delegation_targets)
    ELSE LET properties == Get(nodes[i], "properties", EmptyDict)
         IN  IF HasNoGet(properties) THEN Raised
             ELSE DelegationLoop(nodes, i + 1,
                    IF Get(properties, "unconstraineddelegation", FALSE)
                    THEN Append(delegation_targets, DisplayName(properties))
                    ELSE delegation_targets)

extract_unconstrained_delegation_principals(bloodhound_json) ==
    DelegationLoop(Get(bloodhound_json, "nodes", <<>>), 1, <<>>)

\* ------------------------------------------------------------------------
\* The merges of main
\* ------------------------------------------------------------------------
\* for key, value in extracted_targets.items(): high_value_targets[key].extend(value)
ExtendAll(high_value, extracted) ==
    [k \in DOMAIN high_value \cup DOMAIN extracted |->
        Get(high_value, k, <<>>) \o Get(extracted, k, <<>>)]

\* high_value_targets[key] read on a defaultdict(list) creates a missing key
Touch(high_value, key) ==
    [k \in DOMAIN high_value \cup {key} |-> Get(high_value, k, <<>>)]

Elements(list) == {list[i] : i \in 1..Len(list)}

\* a slip: the admins are left out of the privileged set
PrivilegedAccounts_HighValueOnly(high_value) ==
    Elements(Get(high_value, HighValue, <<>>))

\* set(high_value_targets[DomainAdmins] + high_value_targets[HighValue])
PrivilegedAccounts(high_value) ==
    Elements(Get(high_value, DomainAdmins, <<>>) \o Get(high_value, HighValue, <<>>))

\* a slip: the running map is replaced by the map of the last file
UpdateAll_Replace(sessions, extracted) == extracted

\* for key, value in extracted_sessions.items(): all_sessions[key].update(value)
UpdateAll(sessions, extracted) ==
    [k \in DOMAIN sessions \cup DOMAIN extracted |->
        Get(sessions, k, {}) \cup Get(extracted, k, {})]

\* a slip: a target already listed is not appended again
Extend_Unique(list, values) ==
    list \o SelectSeq(values, LAMBDA v : v \notin Elements(list))

\* unconstrained_delegation_targets.extend(delegation_targets)
Extend(list, values) == list \o values

\* ------------------------------------------------------------------------
\* main
\* ------------------------------------------------------------------------
VARIABLES
    is_dir,          \* os.path.isdir(folder)
    listing,         \* os.listdir(folder): the extension of each entry
    idx,             \* position of the for loop in the listing
    pc,              \* position of main: start, for, done, exit
    high_value_targets,
    high_priv_accounts,
    all_sessions,
    unconstrained_delegation_targets,
    stdout,          \* the lines printed: processing / error / invalid
    reports,         \* the arguments of each call of print_results
    \* history of the run, read by the properties only
    before,          \* the running collections when the last try began
    failed,          \* the listing positions whose processing raised
    parsed,          \* the documents load_json returned, in order
    calls            \* the calls of extract_sessions, in order

vars == <<is_dir, listing, idx, pc, high_value_targets, high_priv_accounts,
          all_sessions, unconstrained_delegation_targets, stdout, reports,
          before, failed, parsed, calls>>

collections == <<high_value_targets, all_sessions, unconstrained_delegation_targets>>

Line(kind, file) == [kind |-> kind, file |-> file]

\* The records read so far, against the bounds
NodeCount(doc) == Len(Get(doc, "nodes", <<>>))

RECURSIVE SessionCountFrom(_, _)
SessionCountFrom(nodes, i) ==
    IF i > Len(nodes) THEN 0
    ELSE Len(Get(nodes[i], "sessions", <<>>)) + SessionCountFrom(nodes, i + 1)

SessionCount(doc) == SessionCountFrom(Get(doc, "nodes", <<>>), 1)

RECURSIVE NodesRead(_, _)
NodesRead(docs, i) ==
    IF i > Len(docs) THEN 0 ELSE NodeCount(docs[i]) + NodesRead(docs, i + 1)

RECURSIVE SessionsRead(_, _)
SessionsRead(docs, i) ==
    IF i > Len(docs) THEN 0 ELSE SessionCount(docs[i]) + SessionsRead(docs, i + 1)

NodesLeft == MaxNodes - NodesRead(parsed, 1)
SessionsLeft == MaxSessions - SessionsRead(parsed, 1)

Init ==
    /\ is_dir \in BOOLEAN
    /\ listing \in (IF is_dir THEN Listings(MaxFiles) ELSE {<<>>})
    /\ idx = 1
    /\ pc = "start"
    /\ high_value_targets = EmptyDict
    /\ high_priv_accounts = {}
    /\ all_sessions = EmptyDict
    /\ unconstrained_delegation_targets = <<>>
    /\ stdout = <<>>
    /\ reports = <<>>
    /\ before = <<EmptyDict, EmptyDict, <<>>>>
    /\ failed = {}
    /\ parsed = <<>>
    /\ calls = <<>>

\* if not os.path.isdir(folder): print(...); return
InvalidDirectory ==
    /\ pc = "start"
    /\ ~is_dir
    /\ stdout' = Append(stdout, Line("invalid", 0))
    /\ pc' = "exit"
    /\ UNCHANGED <<is_dir, listing, idx, high_priv_accounts, reports, collections,
                   before, failed, parsed, calls>>

\* the three empty collections, and the first iteration of the for loop
BeginBatch ==
    /\ pc = "start"
    /\ is_dir
    /\ high_value_targets' = EmptyDict
    /\ all_sessions' = EmptyDict
    /\ unconstrained_delegation_targets' = <<>>
    /\ pc' = "for"
    /\ UNCHANGED <<is_dir, listing, idx, high_priv_accounts, stdout, reports,
                   before, failed, parsed, calls>>

\* an entry that does not end in ".json" is passed over
SkipEntry ==
    /\ pc = "for"
    /\ idx <= Len(listing)
    /\ ~EndsWithJson(listing[idx])
    /\ idx' = idx + 1
    /\ UNCHANGED <<is_dir, listing, pc, high_priv_accounts, stdout, reports,
                   collections, before, failed, parsed, calls>>

\* print(f"Processing {file_path}...")
Processing(out, file) == Append(out, Line("processing", file))

\* except Exception as e: print(f"Error processing {filename}: {e}")
CatchException(out, file) == Append(out, Line("error", file))

\* a slip: the first failure ends the batch
AfterException_Abort == "exit"

\* where main goes on after the except clause: the next iteration of the loop
AfterException == "for"

\* The call of extract_sessions made in the try block, if it got that far
NoCall == [called |-> FALSE, returned |-> FALSE, result |-> EmptyDict]
Call(returned, result) == [called |-> TRUE, returned |-> returned, result |-> result]

\* The outcome of the try block: whether it ran to its end, and the values
\* main holds when it leaves the block.
Outcome(ok, call, targets, privileged, sessions, delegation) ==
    [ok |-> ok, call |-> call, targets |-> targets, privileged |-> privileged,
     sessions |-> sessions, delegation |-> delegation]

\* The last step of the try block: the delegation principals
DelegationStep(bloodhound_data, call, targets, privileged, sessions, delegation) ==
    LET delegation_targets ==
            extract_unconstrained_delegation_principals(bloodhound_data)
    IN  IF delegation_targets.ok
        THEN Outcome(TRUE, call, targets, privileged, sessions,
                     Extend(delegation, delegation_targets.value))
        ELSE Outcome(FALSE, call, targets, privileged, sessions, delegation)

\* The second step of the try block: the privileged set and the sessions
SessionStep(bloodhound_data, targets, sessions, delegation) ==
    LET targets1 == Touch(Touch(targets, DomainAdmins), HighValue)
        privileged == PrivilegedAccounts(targets1)
        extracted_sessions == extract_sessions(bloodhound_data, privileged)
    IN  IF extracted_sessions.ok
        THEN DelegationStep(bloodhound_data,
                            Call(TRUE, extracted_sessions.value),
                            targets1, privileged,
                            UpdateAll(sessions, extracted_sessions.value),
                            delegation)
        ELSE Outcome(FALSE, Call(FALSE, EmptyDict), targets1, privileged,
                     sessions, delegation)

\* The try block on a parsed document: each step runs only if the steps
\* before it returned, and the first exception leaves the block.
TryBlock(bloodhound_data, targets, privileged, sessions, delegation) ==
    LET extracted_targets == extract_high_value_targets(bloodhound_data)
    IN  IF extracted_targets.ok
        THEN SessionStep(bloodhound_data,
                         ExtendAll(targets, extracted_targets.value),
                         sessions, delegation)
        ELSE Outcome(FALSE, NoCall, targets, privileged, sessions, delegation)

\* One iteration of the for loop on a ".json" entry whose file parses
ProcessFile ==
    /\ pc = "for"
    /\ idx <= Len(listing)
    /\ EndsWithJson(listing[idx])
    /\ \E bloodhound_data \in DocumentTable[NodesLeft, SessionsLeft] :
          \E r \in {TryBlock(bloodhound_data, high_value_targets,
                            high_priv_accounts, all_sessions,
                            unconstrained_delegation_targets)} :
              /\ high_value_targets' = r.targets
              /\ high_priv_accounts' = r.privileged
              /\ all_sessions' = r.sessions
              /\ unconstrained_delegation_targets' = r.delegation
              /\ stdout' = IF r.ok THEN Processing(stdout, idx)
                           ELSE CatchException(Processing(stdout, idx), idx)
              /\ pc' = IF r.ok THEN "for" ELSE AfterException
              /\ failed' = IF r.ok THEN failed ELSE failed \cup {idx}
              /\ parsed' = Append(parsed, bloodhound_data)
              /\ calls' = IF r.call.called
                          THEN Append(calls, [data |-> bloodhound_data,
                                              privileged |-> r.privileged,
                                              returned |-> r.call.returned,
                                              result |-> r.call.result])
                          ELSE calls
    /\ before' = collections
    /\ idx' = idx + 1
    /\ UNCHANGED <<is_dir, listing, reports>>

\* One iteration of the for loop on a ".json" entry on which load_json raises
ProcessUnreadableFile ==
    /\ pc = "for"
    /\ idx <= Len(listing)
    /\ EndsWithJson(listing[idx])
    /\ stdout' = CatchException(Processing(stdout, idx), idx)
    /\ pc' = AfterException
    /\ failed' = failed \cup {idx}
    /\ before' = collections
    /\ idx' = idx + 1
    /\ UNCHANGED <<is_dir, listing, high_priv_accounts, reports, collections,
                   parsed, calls>>

\* print_results(high_value_targets, all_sessions, unconstrained_delegation_targets)
PrintResults ==
    /\ pc = "for"
    /\ idx > Len(listing)
    /\ reports' = Append(reports, collections)
    /\ pc' = "done"
    /\ UNCHANGED <<is_dir, listing, idx, high_priv_accounts, stdout, collections,
                   before, failed, parsed, calls>>

Next ==
    \/ InvalidDirectory
    \/ BeginBatch
    \/ SkipEntry
    \/ ProcessFile
    \/ ProcessUnreadableFile
    \/ PrintResults

Spec == Init /\ [][Next]_vars

\* ------------------------------------------------------------------------
\* What the properties say of a document, stated on the document itself
\* ------------------------------------------------------------------------
NodesOf(doc) == Get(doc, "nodes", <<>>)
PropertiesOf(node) == Get(node, "properties", EmptyDict)
NameOf(node) == Get(PropertiesOf(node), "name", "Unknown")
FlagSet(node, flag) ==
    flag \in DOMAIN PropertiesOf(node) /\ PropertiesOf(node)[flag] = TRUE
AdminCountIsOne(node) ==
    "admincount" \in DOMAIN PropertiesOf(node) /\ PropertiesOf(node)["admincount"] = 1

\* The predicate of each category
InCategory(category, node) ==
    CASE category = HighValue -> FlagSet(node, "highvalue")
      [] category = DomainAdmins -> AdminCountIsOne(node)
      [] category = Kerberoastable -> FlagSet(node, "hasspn")
      [] category = UnconstrainedDelegation -> FlagSet(node, "unconstraineddelegation")
      [] category = AllowedToDelegate -> FlagSet(node, "allowedtodelegate")

\* The display names, in node order, of the nodes of doc that Test selects
NamesWhere(doc, Test(_)) ==
    LET selected == SelectSeq(NodesOf(doc), Test)
    IN  [i \in 1..Len(selected) |-> NameOf(selected[i])]

\* The concatenation of NamesWhere over docs[1..n]
RECURSIVE Flatten(_, _)
Flatten(lists, n) ==
    IF n = 0 THEN <<>> ELSE Flatten(lists, n - 1) \o lists[n]

NamesUpTo(docs, n, Test(_)) ==
    Flatten([i \in 1..n |-> NamesWhere(docs[i], Test)], n)

\* The username of a session record: user.name, the empty string when absent
UsernameOf(session) == Get(Get(session, "user", EmptyDict), "name", "")

\* Some node of doc named host lists a session of username
SessionSeen(doc, host, username) ==
    \E i \in 1..Len(NodesOf(doc)) :
        /\ NameOf(NodesOf(doc)[i]) = host
        /\ \E j \in 1..Len(Get(NodesOf(doc)[i], "sessions", <<>>)) :
              UsernameOf(NodesOf(doc)[i].sessions[j]) = username

\* How many session records of doc are of username on a node named host
RECURSIVE SeenCountFrom(_, _, _, _)
SeenCountFrom(nodes, i, host, username) ==
    IF i > Len(nodes) THEN 0
    ELSE (IF NameOf(nodes[i]) = host
          THEN Len(SelectSeq(Get(nodes[i], "sessions", <<>>),
                             LAMBDA s : UsernameOf(s) = username))
          ELSE 0) + SeenCountFrom(nodes, i + 1, host, username)

Hosts == Names \cup {"Unknown"}
Usernames == Names \cup {"Unknown"}

RunningList(category) == Get(high_value_targets, category, <<>>)
RunningPrivileged == Elements(RunningList(HighValue)) \cup Elements(RunningList(DomainAdmins))
Privileged(node) == FlagSet(node, "highvalue") \/ AdminCountIsOne(node)

\* ------------------------------------------------------------------------
\* C1: extract_sessions never reports a username outside the privileged set
\* it was called with, and every username of the running SessionMap was put
\* there by a call whose document lists that session on that host and whose
\* privileged set held the username at that call: a username that becomes
\* privileged in a later document adds nothing for the sessions of an
\* earlier one.
\* ------------------------------------------------------------------------
C1_NoRetroactiveMatch ==
    /\ \A i \in 1..Len(calls) : \A h \in DOMAIN calls[i].result :
          calls[i].result[h] \subseteq calls[i].privileged
    /\ \A h \in DOMAIN all_sessions : \A u \in all_sessions[h] :
          \E i \in 1..Len(calls) :
              /\ calls[i].returned
              /\ u \in calls[i].privileged
              /\ SessionSeen(calls[i].data, h, u)

\* An earlier document lists a session of u on h while u is not privileged,
\* a later document makes u privileged, and u is not reported on h.
C1_Witness ==
    /\ pc = "done"
    /\ \E h \in Hosts, u \in Usernames :
          /\ Len(calls) = 2
          /\ calls[1].returned
          /\ SessionSeen(calls[1].data, h, u)
          /\ u \notin calls[1].privileged
          /\ u \in calls[2].privileged
          /\ u \in RunningPrivileged
          /\ u \notin Get(all_sessions, h, {})

\* ------------------------------------------------------------------------
\* C2: a file whose processing fails leaves the running collections as they
\* were before it.
\* ------------------------------------------------------------------------
LastFileFailed == stdout # <<>> /\ stdout[Len(stdout)].kind = "error"

\* A category without a key holds the same names as one with an empty list.
C2_FailedFileLeavesNoTrace ==
    LastFileFailed =>
        /\ \A c \in Categories : RunningList(c) = Get(before[1], c, <<>>)
        /\ all_sessions = before[2]
        /\ unconstrained_delegation_targets = before[3]

\* ------------------------------------------------------------------------
\* C3: with a valid directory the batch is never aborted: when main ends,
\* every ".json" entry of the listing was processed exactly once in listing
\* order, every failure was reported for its file right after that file was
\* announced, and print_results was called exactly once, after the last
\* entry; it is never called earlier.
\* ------------------------------------------------------------------------
JsonPositions ==
    SelectSeq([i \in 1..Len(listing) |-> i], LAMBDA i : listing[i] = ".json")

ProcessingLines == SelectSeq(stdout, LAMBDA l : l.kind = "processing")
ErrorLines == SelectSeq(stdout, LAMBDA l : l.kind = "error")

C3_BatchNeverAborts ==
    /\ pc = "exit" => ~is_dir
    /\ pc # "done" => reports = <<>>
    /\ pc = "done" =>
          /\ idx = Len(listing) + 1
          /\ Len(reports) = 1
          /\ reports[1] = collections
          /\ [i \in 1..Len(ProcessingLines) |-> ProcessingLines[i].file] = JsonPositions
          /\ {ErrorLines[i].file : i \in 1..Len(ErrorLines)} = failed
          /\ Len(ErrorLines) = Cardinality(failed)
          /\ \A i \in 1..Len(stdout) :
                stdout[i].kind = "error" =>
                    /\ i > 1
                    /\ stdout[i - 1] = Line("processing", stdout[i].file)

\* Every file of a listing of two ".json" entries failed, the first in an
\* extractor, and the report was still produced once.
C3_Witness ==
    /\ pc = "done"
    /\ Len(JsonPositions) = 2
    /\ failed = {1, 2}
    /\ Len(parsed) >= 1
    /\ Len(reports) = 1

\* ------------------------------------------------------------------------
\* C4: the privileged set of the k-th call of extract_sessions is the set of
\* the names filed under "High Value" or "Domain Admins / Enterprise
\* Admins" by the documents merged so far, the current one included.
\* ------------------------------------------------------------------------
CallDocuments == [i \in 1..Len(calls) |-> calls[i].data]

C4_PrivilegedSetAtCall ==
    \A k \in 1..Len(calls) :
        calls[k].privileged =
            Elements(NamesUpTo(CallDocuments, k, LAMBDA n : Privileged(n)))

\* A session of u is listed on a node that comes before the node that makes
\* u privileged, in the same file, and is matched.
C4_Witness ==
    \E k \in 1..Len(calls) :
        LET nodes == NodesOf(calls[k].data)
        IN  /\ Len(nodes) = 2
            /\ ~Privileged(nodes[1])
            /\ Privileged(nodes[2])
            /\ Len(Get(nodes[1], "sessions", <<>>)) = 1
            /\ UsernameOf(nodes[1].sessions[1]) = NameOf(nodes[2])
            /\ NameOf(nodes[2]) \in Get(calls[k].result, NameOf(nodes[1]), {})

\* ------------------------------------------------------------------------
\* C5: the example document of the specification, processed alone.
\* ------------------------------------------------------------------------
ExampleDocument ==
    [nodes |->
        << [properties |-> [name |-> "A", highvalue |-> TRUE]],
           [properties |-> [name |-> "B", admincount |-> 1,
                            unconstraineddelegation |-> TRUE],
            sessions |-> << [user |-> [name |-> "A"]] >>] >>]

ExampleProcessed == pc = "done" /\ parsed = <<ExampleDocument>>

\* C5 as stated: HighValueAccounts holds the two categories "High Value"
\* and "Domain Admins / Enterprise Admins" and no other.
C5_ExampleAsStated ==
    ExampleProcessed =>
        /\ high_value_targets = (HighValue :> <<"A">>) @@ (DomainAdmins :> <<"B">>)
        /\ all_sessions = [B |-> {"A"}]
        /\ unconstrained_delegation_targets = <<"B">>

\* C5 as amended: HighValueAccounts also holds "Unconstrained Delegation":
\* ["B"], since node B has unconstraineddelegation set.
C5_Example ==
    ExampleProcessed =>
        /\ high_value_targets =
               (HighValue :> <<"A">>) @@ (DomainAdmins :> <<"B">>)
               @@ (UnconstrainedDelegation :> <<"B">>)
        /\ all_sessions = [B |-> {"A"}]
        /\ unconstrained_delegation_targets = <<"B">>

C5_Witness == ExampleProcessed /\ failed = {} /\ Len(reports) = 1

\* ------------------------------------------------------------------------
\* C6: when no file has failed, each category list of the running
\* HighValueAccounts is the concatenation, in processing order, of the
\* display names, in node order and once per node, of the nodes of each
\* document whose predicate for that category is true; nothing is
\* deduplicated and a node may be filed under several categories.
\* ------------------------------------------------------------------------
C6_CategoryLists ==
    failed = {} =>
        \A c \in Categories :
            RunningList(c) = NamesUpTo(parsed, Len(parsed), LAMBDA n : InCategory(c, n))

\* Two documents were merged, a name is listed twice under one category, and
\* two categories have names.
C6_Witness ==
    /\ failed = {}
    /\ Len(parsed) = 2
    /\ \E c \in Categories :
          /\ Len(RunningList(c)) = 2
          /\ RunningList(c)[1] = RunningList(c)[2]
    /\ \E c1, c2 \in Categories : c1 # c2 /\ RunningList(c1) # <<>> /\ RunningList(c2) # <<>>

\* A node with admincount 0 and one with admincount 1 were read; only the
\* second is listed.
C6_WitnessAdminCount ==
    /\ failed = {}
    /\ \E i \in 1..Len(parsed) : \E j \in 1..Len(NodesOf(parsed[i])) :
          Get(PropertiesOf(NodesOf(parsed[i])[j]), "admincount", 1) = 0
    /\ Len(RunningList(DomainAdmins)) = 1

\* ------------------------------------------------------------------------
\* C7: the empty string is never a username of the running SessionMap.
\* ------------------------------------------------------------------------
C7_NoEmptyUsername ==
    \A h \in DOMAIN all_sessions : "" \notin all_sessions[h]

\* ------------------------------------------------------------------------
\* C8: the running value of a host is the union of the sets the calls of
\* extract_sessions returned for it, and the set a call returns for a host
\* holds each privileged username seen there once, however often and on
\* however many nodes of that name the session is listed.
\* ------------------------------------------------------------------------
C8_UnionPerHost ==
    /\ \A h \in Hosts \cup DOMAIN all_sessions :
          Get(all_sessions, h, {}) =
              UNION {Get(calls[i].result, h, {}) : i \in 1..Len(calls)}
    /\ \A i \in 1..Len(calls) :
          calls[i].returned =>
              \A h \in Hosts \cup DOMAIN calls[i].result :
                  Get(calls[i].result, h, {}) =
                      {u \in calls[i].privileged : SessionSeen(calls[i].data, h, u)}

\* The same privileged user's session on one host is read in two files and
\* the host's set has one element.
C8_Witness ==
    /\ pc = "done"
    /\ Len(calls) = 2
    /\ \E h \in Hosts, u \in Usernames :
          /\ u \in Get(calls[1].result, h, {})
          /\ u \in Get(calls[2].result, h, {})
          /\ all_sessions[h] = {u}

\* The same session is listed twice in one node, or on two nodes of one name.
C8_WitnessSameFile ==
    \E i \in 1..Len(calls), h \in Hosts, u \in Usernames :
        /\ SeenCountFrom(NodesOf(calls[i].data), 1, h, u) = 2
        /\ calls[i].result = (h :> {u})
        /\ Cardinality(all_sessions[h]) = 1

C10_SessionsArePrivileged ==
    \A h \in DOMAIN all_sessions :
        /\ all_sessions[h] # {}
        /\ all_sessions[h] \subseteq RunningPrivileged

\* A session was recorded, and a later file failed after its targets were
\* merged.
C10_Witness ==
    /\ pc = "done"
    /\ DOMAIN all_sessions # {}
    /\ failed = {2}
    /\ Len(calls) = 2
    /\ ~calls[2].returned

====
